---------------------------- MODULE Spec2Model ----------------------------
(***************************************************************************)
(* Model of the request/response layer of the ESRI App Finder demo:        *)
(*   - chatHandler               (backend/dist/functions/chat.js)          *)
(*   - livingAtlasSearchHandler  (unnamed/part_002, lines 219-289)         *)
(*   - createError, ERROR_DEFAULTS, mapErrorToAppError                     *)
(*                               (.specify/specs/error-handling.md)        *)
(*                                                                         *)
(* Strings whose content the handlers never inspect are represented by     *)
(* their length, [type |-> "string", len |-> n]; JavaScript values are     *)
(* tagged records so that truthiness (the `!x`, `||` and `??` operators)   *)
(* is computed as the language computes it.  Wall-clock values             *)
(* (new Date().toISOString(), Date.now()) are represented by their format. *)
(***************************************************************************)
EXTENDS Integers, Sequences, FiniteSets, TLC

VARIABLES
    pc,         \* pc[r]: position of invocation r inside its handler
    endpoint,   \* endpoint[r]: "chat", "search" or "none" (slot unused)
    request,    \* request[r]: the raw HTTP input of invocation r
    locals,     \* locals[r]: the handler's local variables after parsing
    payload,    \* payload[r]: the mock result object built by the handler
    response,   \* response[r]: the HttpResponseInit returned by the handler
    trace,      \* trace[r]: the steps invocation r has executed, in order
    errCall,    \* the last call made to the error factory or the error mapper
    errResult,  \* what that call returned, or the exception it threw
    apiPc,      \* position inside apiCall (and, after it, searchLivingAtlas)
    apiOptions, \* the caller and the options object it passes to apiCall
    attempt,    \* apiCall's loop counter
    fnCalls,    \* how many times apiCall has invoked the wrapped function
    attemptLog, \* how each attempt's Promise.race settled, in order
    apiResult,  \* what apiCall returned, or the exception it threw
    cache,      \* searchLivingAtlas: the cache entry under the request's key
    storeError, \* the error held by useAppStore (setError)
    slaResult,  \* what searchLivingAtlas returned, or what it threw
    searchQuery,      \* LivingAtlasSearch: the text in the search box
    results,          \* LivingAtlasSearch: the datasets listed
    searchPc,         \* whether the search form has been submitted
    backendReply,     \* the search endpoint's answer to the same query
    store,            \* useAppStore: the state object
    datasetsIsInitial,\* selectedDatasets is the array of initialState itself
    chatInput,        \* ChatInterface: `message`, the text in the input box
    messages,         \* ChatInterface: the message list (state)
    renderedMessages, \* ChatInterface: the list as of the last render
    timers,           \* reply timers started by handleSend and not yet fired
    views             \* the MapViews created and not destroyed, oldest first

httpVars == <<pc, endpoint, request, locals, payload, response, trace>>
errVars == <<errCall, errResult>>
apiVars == <<apiPc, apiOptions, attempt, fnCalls, attemptLog, apiResult,
             cache, storeError, slaResult>>
uiVars == <<searchQuery, results, searchPc, backendReply, store,
            datasetsIsInitial, chatInput, messages, renderedMessages, timers, views>>
vars == <<httpVars, errVars, apiVars, uiVars>>

\* what a step of the HTTP handlers leaves alone, and a step of the error layer
nonHttpVars == <<errVars, apiVars, uiVars>>
nonErrVars == <<httpVars, apiVars, uiVars>>
nonApiVars == <<httpVars, errVars, uiVars>>
nonUiVars == <<httpVars, errVars, apiVars>>

---------------------------------------------------------------------------
(* Bounds of the model *)

\* number of handler invocations that may be in flight together
MaxRequests == 2
\* how far past the documented maximum a chat message may run
MaxOver == 1
\* longest search query, in characters
MaxQueryLen == 3
\* largest retries option a caller passes to apiCall
MaxRetries == 2
\* longest text typed into the dataset search box, besides the named ones
MaxSearchLen == 3
\* most chat messages sent to one ChatInterface, and most reply timers pending
MaxSends == 2
\* most calls of the store's reset
MaxResets == 1
\* most MapViews created before the model stops creating more
MaxViews == 3

(* Program constants *)

\* z.string().min(1).max(500) in ChatRequestSchema
MinMessageLen == 1
MaxMessageLen == 500
\* `query.length < 3` in livingAtlasSearchHandler
MinQueryLen == 3
\* parseInt(request.query.get('limit') || '20')
DefaultLimit == 20
\* relevanceScore: 0.95, written in hundredths; 1.0 is ScoreOne
MockRelevanceScore == 95
ScoreOne == 100
\* `total: 2` of mockResults
MockTotal == 2
\* lengths of the two literal parts of the chat reply template
ContentPrefixLen == 26
ContentSuffixLen == 53

Requests == 1..MaxRequests

---------------------------------------------------------------------------
(* JavaScript values *)

Undefined == [type |-> "undefined"]
Null == [type |-> "null"]
Str(n) == [type |-> "string", len |-> n]
Num(n) == [type |-> "number", num |-> n]
Bool(b) == [type |-> "boolean", bool |-> b]
Obj == [type |-> "object"]
NaN == [type |-> "NaN"]

\* ToBoolean: what `!v` and `v || d` test
Truthy(v) ==
    CASE v.type = "string" -> v.len > 0
      [] v.type = "number" -> v.num # 0
      [] v.type = "boolean" -> v.bool
      [] v.type = "object" -> TRUE
      [] OTHER -> FALSE

\* a || b
Or(a, b) == IF Truthy(a) THEN a ELSE b

\* length of `${v}` inside a template literal
TemplateLen(v) ==
    CASE v.type = "string" -> v.len
      [] v.type = "number" -> IF v.num < 10 THEN 1 ELSE 2
      [] v.type = "boolean" -> IF v.bool THEN 4 ELSE 5
      [] v.type = "object" -> 15
      [] v.type = "undefined" -> 9
      [] v.type = "null" -> 4
      [] OTHER -> 3

\* new Date().toISOString()
ISOTimestamp == "ISO-8601"

NoValue == [type |-> "none"]

\* the client wrapper is not in use
ApiUnused ==
    /\ apiPc = "unused"
    /\ apiOptions = NoValue
    /\ attempt = 0
    /\ fnCalls = 0
    /\ attemptLog = << >>
    /\ apiResult = NoValue
    /\ cache = NoValue
    /\ storeError = NoValue
    /\ slaResult = NoValue
NoResponse == [status |-> 0, jsonBody |-> [empty |-> TRUE]]

---------------------------------------------------------------------------
(* Frontend: strings *)

\* a string is the sequence of its characters
UpperToLower ==
    "A" :> "a" @@ "B" :> "b" @@ "C" :> "c" @@ "D" :> "d" @@
    "E" :> "e" @@ "F" :> "f" @@ "G" :> "g" @@ "H" :> "h" @@
    "I" :> "i" @@ "J" :> "j" @@ "K" :> "k" @@ "L" :> "l" @@
    "M" :> "m" @@ "N" :> "n" @@ "O" :> "o" @@ "P" :> "p" @@
    "Q" :> "q" @@ "R" :> "r" @@ "S" :> "s" @@ "T" :> "t" @@
    "U" :> "u" @@ "V" :> "v" @@ "W" :> "w" @@ "X" :> "x" @@
    "Y" :> "y" @@ "Z" :> "z"

\* String.prototype.toLowerCase
ToLowerCase(str) ==
    [i \in 1..Len(str) |->
        IF str[i] \in DOMAIN UpperToLower THEN UpperToLower[str[i]] ELSE str[i]]

\* String.prototype.includes
Includes(str, sub) ==
    \E i \in 0..(Len(str) - Len(sub)) :
        \A j \in 1..Len(sub) : str[i + j] = sub[j]

WhiteSpace == {" "}

\* !str.trim()
IsBlank(str) == \A i \in 1..Len(str) : str[i] \in WhiteSpace

---------------------------------------------------------------------------
(* Frontend: data/mockData.ts *)

mockApps ==
    << [id |-> "instant-apps-map-viewer",
        name |-> "Instant Apps - Map Viewer",
        category |-> "viewer",
        configUrl |-> "https://www.arcgis.com/apps/instant/basic/index.html",
        complexity |-> "beginner"],
       [id |-> "story-maps",
        name |-> "ArcGIS StoryMaps",
        category |-> "storytelling",
        configUrl |-> "https://storymaps.arcgis.com/stories/new",
        complexity |-> "intermediate"] >>

mockDatasets ==
 <<
    [id |-> "world-imagery",
     title |->
        <<"W", "o", "r", "l", "d", " ", "I", "m", "a", "g", "e", "r", "y">>,
     description |->
        <<"H", "i", "g", "h", "-", "r", "e", "s", "o", "l", "u", "t", "i",
        "o", "n", " ", "s", "a", "t", "e", "l", "l", "i", "t", "e", " ", "a",
        "n", "d", " ", "a", "e", "r", "i", "a", "l", " ", "i", "m", "a", "g",
        "e", "r", "y", " ", "f", "r", "o", "m", " ", "a", "r", "o", "u", "n",
        "d", " ", "t", "h", "e", " ", "w", "o", "r", "l", "d", ".", " ", "P",
        "r", "o", "v", "i", "d", "e", "s", " ", "c", "o", "n", "t", "e", "x",
        "t", " ", "f", "o", "r", " ", "m", "a", "p", "p", "i", "n", "g", " ",
        "a", "p", "p", "l", "i", "c", "a", "t", "i", "o", "n", "s", ".">>,
     owner |-> "Esri",
     type |-> "Image Service",
     tags |->
        <<<<"i", "m", "a", "g", "e", "r", "y">>,
          <<"b", "a", "s", "e", "m", "a", "p">>,
          <<"s", "a", "t", "e", "l", "l", "i", "t", "e">>,
          <<"a", "e", "r", "i", "a", "l">>>>],
    [id |-> "usa-census-tract-boundaries",
     title |->
        <<"U", "S", "A", " ", "C", "e", "n", "s", "u", "s", " ", "T", "r",
        "a", "c", "t", " ", "B", "o", "u", "n", "d", "a", "r", "i", "e",
        "s">>,
     description |->
        <<"C", "e", "n", "s", "u", "s", " ", "t", "r", "a", "c", "t", " ",
        "b", "o", "u", "n", "d", "a", "r", "i", "e", "s", " ", "f", "o", "r",
        " ", "t", "h", "e", " ", "U", "n", "i", "t", "e", "d", " ", "S", "t",
        "a", "t", "e", "s", ".", " ", "I", "n", "c", "l", "u", "d", "e", "s",
        " ", "d", "e", "m", "o", "g", "r", "a", "p", "h", "i", "c", " ", "d",
        "a", "t", "a", " ", "a", "n", "d", " ", "s", "t", "a", "t", "i", "s",
        "t", "i", "c", "a", "l", " ", "i", "n", "f", "o", "r", "m", "a", "t",
        "i", "o", "n", ".">>,
     owner |-> "Esri Demographics",
     type |-> "Feature Service",
     tags |->
        <<<<"c", "e", "n", "s", "u", "s">>,
          <<"d", "e", "m", "o", "g", "r", "a", "p", "h", "i", "c", "s">>,
          <<"b", "o", "u", "n", "d", "a", "r", "i", "e", "s">>,
          <<"u", "s", "a">>>>],
    [id |-> "world-countries",
     title |->
        <<"W", "o", "r", "l", "d", " ", "C", "o", "u", "n", "t", "r", "i",
        "e", "s">>,
     description |->
        <<"G", "e", "n", "e", "r", "a", "l", "i", "z", "e", "d", " ", "b",
        "o", "u", "n", "d", "a", "r", "i", "e", "s", " ", "o", "f", " ", "w",
        "o", "r", "l", "d", " ", "c", "o", "u", "n", "t", "r", "i", "e", "s",
        " ", "w", "i", "t", "h", " ", "p", "o", "p", "u", "l", "a", "t", "i",
        "o", "n", " ", "a", "n", "d", " ", "e", "c", "o", "n", "o", "m", "i",
        "c", " ", "d", "a", "t", "a", ".">>,
     owner |-> "Esri",
     type |-> "Feature Service",
     tags |->
        <<<<"c", "o", "u", "n", "t", "r", "i", "e", "s">>,
          <<"w", "o", "r", "l", "d">>,
          <<"b", "o", "u", "n", "d", "a", "r", "i", "e", "s">>,
          <<"r", "e", "f", "e", "r", "e", "n", "c", "e">>>>]
 >>

\* a dataset object is held by reference; the model holds its id, which
\* names it in mockDatasets
DatasetIds == {mockDatasets[i].id : i \in 1..Len(mockDatasets)}
AllDatasetIds == [i \in 1..Len(mockDatasets) |-> mockDatasets[i].id]
DatasetById(id) ==
    mockDatasets[CHOOSE i \in 1..Len(mockDatasets) : mockDatasets[i].id = id]

mockChatResponses ==
    << [query |->
          <<"v", "i", "s", "u", "a", "l", "i", "z", "e", " ", "p", "o", "p",
          "u", "l", "a", "t", "i", "o", "n">>,
        response |-> "I'd recommend using **Instant Apps - Map Viewer** ...",
        recommendedApps |-> <<"instant-apps-map-viewer">>,
        suggestedDatasets |-> <<"usa-census-tract-boundaries", "world-countries">>],
       [query |->
          <<"t", "e", "l", "l", " ", "a", " ", "s", "t", "o", "r", "y">>,
        response |-> "For storytelling, I recommend **ArcGIS StoryMaps**! ...",
        recommendedApps |-> <<"story-maps">>,
        suggestedDatasets |-> <<"world-imagery", "world-countries">>] >>

---------------------------------------------------------------------------
(* Frontend: the state the application starts in *)

\* const initialState = { ... }
initialState ==
    [sidebarOpen |-> TRUE,
     activeTab |-> "chat",
     sessionId |-> 0,
     selectedApp |-> Null,
     selectedDatasets |-> << >>,
     currentWebMapId |-> Null,
     mapExtent |-> Null]

\* the message ChatInterface's useState starts with
Greeting ==
    [role |-> "assistant",
     content |-> "Hello! I'm here to help you find the perfect ESRI application ..."]

\* the layers InteractiveMap's effect adds to the map it creates
LayersFor(datasetIds) ==
    LET has(id) == \E i \in 1..Len(datasetIds) : datasetIds[i] = id IN
    (IF has("world-imagery") THEN <<"World Imagery">> ELSE << >>) \o
    (IF has("usa-census-tract-boundaries") THEN <<"USA Census Tracts">> ELSE << >>) \o
    (IF has("world-countries") THEN <<"World Countries">> ELSE << >>) \o
    (IF Len(datasetIds) = 0 THEN <<"USA States">> ELSE << >>)

\* new MapView({ container: mapDiv.current, map })
NewView(datasetIds) == [layers |-> LayersFor(datasetIds)]

\* the application as first rendered: Layout, Header, Sidebar with the Chat
\* tab, MapContainer with its first view
UiInitial ==
    /\ searchQuery = << >>
    /\ results = AllDatasetIds
    /\ searchPc = "typing"
    /\ backendReply = NoValue
    /\ store = initialState
    /\ datasetsIsInitial = TRUE
    /\ chatInput = << >>
    /\ messages = <<Greeting>>
    /\ renderedMessages = <<Greeting>>
    /\ timers = << >>
    /\ views = <<NewView(<< >>)>>


---------------------------------------------------------------------------
(* Inputs *)

MessageLens ==
    {0, MinMessageLen, MaxMessageLen} \cup
    (MaxMessageLen + 1 .. MaxMessageLen + MaxOver)

\* what the `message` property of a JSON object body may hold
\* (Undefined: the property is absent)
MessageValues ==
    {Undefined, Null, Num(0), Num(42), Bool(FALSE), Bool(TRUE), Obj} \cup
    {Str(n) : n \in MessageLens}

\* the request body as request.json() meets it: text that is not JSON,
\* JSON null, a JSON primitive, or a JSON object
ChatBodies ==
    {[kind |-> "unparseable"],
     [kind |-> "json", value |-> Null],
     [kind |-> "json", value |-> Num(7)]} \cup
    {[kind |-> "json", value |-> [type |-> "object", message |-> m]] :
        m \in MessageValues}

\* URLSearchParams.get('q'): null when the parameter is absent
QueryParams == {Null} \cup {Str(n) : n \in 0..MaxQueryLen}

\* URLSearchParams.get('limit'): absent, or a numeral
LimitParams == {Null, [type |-> "numeral", num |-> 5]}

\* parseInt of a query-string value
ParseInt(v) ==
    CASE v.type = "numeral" -> Num(v.num)
      [] OTHER -> NaN

---------------------------------------------------------------------------
(* Response construction shared by both handlers *)

\* { error: { code, message, timestamp } }
ErrorBody(code, message) ==
    [error |-> [code |-> code, message |-> message, timestamp |-> ISOTimestamp]]

\* the 200 return of both handlers
OkResponse(body) ==
    [status |-> 200, jsonBody |-> body,
     headers |-> [ContentType |-> "application/json"]]

\* the catch block of both handlers
InternalErrorResponse(ep) ==
    [status |-> 500,
     jsonBody |-> ErrorBody("INTERNAL_ERROR",
        IF ep = "chat" THEN "An error occurred processing your request"
                       ELSE "An error occurred processing your search")]

---------------------------------------------------------------------------
(* chatHandler *)

\* const { message, sessionId, context } = body, on a body that is not
\* null: a primitive has no such property
MessageOf(value) ==
    IF value.type = "object" THEN value.message ELSE Undefined

\* `await request.json()` rejects, or destructuring null throws TypeError
ChatParseThrows(body) ==
    \/ body.kind = "unparseable"
    \/ body.kind = "json" /\ body.value.type = "null"

\* if (!message)
ChatMessageMissing(message) == ~Truthy(message)

ChatInvalidResponse ==
    [status |-> 400, jsonBody |-> ErrorBody("INVALID_REQUEST", "Message is required")]

\* content: `I received your message: "${message}". Azure OpenAI ...`
ChatContent(message) ==
    [type |-> "string",
     len |-> ContentPrefixLen + TemplateLen(message) + ContentSuffixLen,
     echo |-> message]

\* the score written as a percentage, 95, where the contract wants 0.95
MockRecommendationsAsPercent ==
    << [id |-> "instant-apps-map-viewer",
        name |-> "Instant Apps - Map Viewer",
        category |-> "instant-apps",
        relevanceScore |-> MockRelevanceScore * ScoreOne,
        templateId |-> "instant-apps-basic-viewer"] >>

MockRecommendations ==
    << [id |-> "instant-apps-map-viewer",
        name |-> "Instant Apps - Map Viewer",
        category |-> "instant-apps",
        relevanceScore |-> MockRelevanceScore,
        templateId |-> "instant-apps-basic-viewer"] >>

\* the mock `response` object
ChatResponseBody(message) ==
    [messageId |-> "msg_<Date.now()>",
     role |-> "assistant",
     content |-> ChatContent(message),
     timestamp |-> ISOTimestamp,
     recommendations |-> MockRecommendations,
     suggestedActions |-> << [type |-> "create-map", label |-> "Create web map"] >>]

\* the runtime invokes the handler: context.log(...), then request.json()
ChatReceive(r) ==
    /\ pc[r] = "idle"
    /\ \E body \in ChatBodies :
          request' = [request EXCEPT ![r] = [body |-> body]]
    /\ endpoint' = [endpoint EXCEPT ![r] = "chat"]
    /\ pc' = [pc EXCEPT ![r] = "parse"]
    /\ trace' = [trace EXCEPT ![r] = <<"receive">>]
    /\ UNCHANGED <<locals, payload, response>>
    /\ UNCHANGED nonHttpVars

\* const body = await request.json(); const { message, ... } = body;
ChatParse(r) ==
    /\ pc[r] = "parse" /\ endpoint[r] = "chat"
    /\ IF ChatParseThrows(request[r].body)
          THEN /\ pc' = [pc EXCEPT ![r] = "catch"]
               /\ UNCHANGED locals
          ELSE /\ pc' = [pc EXCEPT ![r] = "validate"]
               /\ locals' = [locals EXCEPT ![r] =
                                [message |-> MessageOf(request[r].body.value)]]
    /\ trace' = [trace EXCEPT ![r] = Append(@, "parse")]
    /\ UNCHANGED <<endpoint, request, payload, response>>
    /\ UNCHANGED nonHttpVars

\* the validation branch without its `return`: control runs on to the reply
ChatValidateNoReturn(r) ==
    /\ pc[r] = "validate" /\ endpoint[r] = "chat"
    /\ IF ChatMessageMissing(locals[r].message)
          THEN /\ response' = [response EXCEPT ![r] = ChatInvalidResponse]
               /\ trace' = [trace EXCEPT ![r] = Append(@, "validate_fail")]
          ELSE /\ trace' = [trace EXCEPT ![r] = Append(@, "validate_ok")]
               /\ UNCHANGED response
    /\ pc' = [pc EXCEPT ![r] = "build"]
    /\ UNCHANGED <<endpoint, request, locals, payload>>
    /\ UNCHANGED nonHttpVars

\* if (!message) { return { status: 400, ... } }
ChatValidate(r) ==
    /\ pc[r] = "validate" /\ endpoint[r] = "chat"
    /\ IF ChatMessageMissing(locals[r].message)
          THEN /\ response' = [response EXCEPT ![r] = ChatInvalidResponse]
               /\ pc' = [pc EXCEPT ![r] = "done"]
               /\ trace' = [trace EXCEPT ![r] = @ \o <<"validate_fail", "respond">>]
          ELSE /\ pc' = [pc EXCEPT ![r] = "build"]
               /\ trace' = [trace EXCEPT ![r] = Append(@, "validate_ok")]
               /\ UNCHANGED response
    /\ UNCHANGED <<endpoint, request, locals, payload>>
    /\ UNCHANGED nonHttpVars

\* a variant of ChatBuild that takes the message from a variable shared by
\* all invocations: whichever invocation parsed a body may have written it
ChatBuildFromSharedMessage(r) ==
    /\ pc[r] = "build" /\ endpoint[r] = "chat"
    /\ \E s \in Requests :
        /\ endpoint[s] = "chat"
        /\ locals[s] # NoValue
        /\ payload' = [payload EXCEPT ![r] = ChatResponseBody(locals[s].message)]
    /\ pc' = [pc EXCEPT ![r] = "respond"]
    /\ trace' = [trace EXCEPT ![r] = Append(@, "build")]
    /\ UNCHANGED <<endpoint, request, locals, response>>
    /\ UNCHANGED nonHttpVars

\* const response = { messageId, role, content, ... }
ChatBuild(r) ==
    /\ pc[r] = "build" /\ endpoint[r] = "chat"
    /\ payload' = [payload EXCEPT ![r] = ChatResponseBody(locals[r].message)]
    /\ pc' = [pc EXCEPT ![r] = "respond"]
    /\ trace' = [trace EXCEPT ![r] = Append(@, "build")]
    /\ UNCHANGED <<endpoint, request, locals, response>>
    /\ UNCHANGED nonHttpVars

\* return { status: 200, jsonBody: response, headers }
ChatRespond(r) ==
    /\ pc[r] = "respond" /\ endpoint[r] = "chat"
    /\ response' = [response EXCEPT ![r] = OkResponse(payload[r])]
    /\ pc' = [pc EXCEPT ![r] = "done"]
    /\ trace' = [trace EXCEPT ![r] = Append(@, "respond")]
    /\ UNCHANGED <<endpoint, request, locals, payload>>
    /\ UNCHANGED nonHttpVars

\* catch (error) { context.error(...); return { status: 500, ... } }
HandlerCatch(r) ==
    /\ pc[r] = "catch"
    /\ response' = [response EXCEPT ![r] = InternalErrorResponse(endpoint[r])]
    /\ pc' = [pc EXCEPT ![r] = "done"]
    /\ trace' = [trace EXCEPT ![r] = @ \o <<"catch", "respond">>]
    /\ UNCHANGED <<endpoint, request, locals, payload>>
    /\ UNCHANGED nonHttpVars

---------------------------------------------------------------------------
(* livingAtlasSearchHandler *)

\* const query = request.query.get('q') || ''
QueryOf(q) == Or(q, Str(0))

\* const limit = parseInt(request.query.get('limit') || '20')
LimitOf(l) == IF l.type = "null" THEN Num(DefaultLimit) ELSE ParseInt(l)

\* if (!query || query.length < 3)
SearchQueryInvalid(query) == ~Truthy(query) \/ query.len < MinQueryLen

SearchInvalidResponse ==
    [status |-> 400,
     jsonBody |-> ErrorBody("INVALID_REQUEST", "Query must be at least 3 characters")]

\* the single fabricated dataset of mockResults
MockDataset(query) ==
    [id |-> "dataset-1",
     title |-> [type |-> "string", len |-> query.len + 16, echo |-> query],
     type |-> "feature-layer",
     categories |-> <<"Demographics">>,
     tags |-> <<query, Str(7)>>,
     owner |-> "esri_living_atlas",
     created |-> "2023-01-01T00:00:00.000Z",
     modified |-> "2025-01-01T00:00:00.000Z"]

\* const mockResults = { query, total: 2, results: [ ... ] }
SearchResultsBody(query) ==
    [query |-> query, total |-> MockTotal, results |-> <<MockDataset(query)>>]

\* the runtime invokes the handler: context.log(...)
SearchReceive(r) ==
    /\ pc[r] = "idle"
    /\ \E q \in QueryParams, l \in LimitParams :
          request' = [request EXCEPT ![r] = [q |-> q, limit |-> l]]
    /\ endpoint' = [endpoint EXCEPT ![r] = "search"]
    /\ pc' = [pc EXCEPT ![r] = "parse"]
    /\ trace' = [trace EXCEPT ![r] = <<"receive">>]
    /\ UNCHANGED <<locals, payload, response>>
    /\ UNCHANGED nonHttpVars

\* the three const declarations reading request.query; none of them throws
SearchParse(r) ==
    /\ pc[r] = "parse" /\ endpoint[r] = "search"
    /\ locals' = [locals EXCEPT ![r] =
                    [query |-> QueryOf(request[r].q),
                     limit |-> LimitOf(request[r].limit)]]
    /\ pc' = [pc EXCEPT ![r] = "validate"]
    /\ trace' = [trace EXCEPT ![r] = Append(@, "parse")]
    /\ UNCHANGED <<endpoint, request, payload, response>>
    /\ UNCHANGED nonHttpVars

\* if (!query || query.length < 3) { return { status: 400, ... } }
SearchValidate(r) ==
    /\ pc[r] = "validate" /\ endpoint[r] = "search"
    /\ IF SearchQueryInvalid(locals[r].query)
          THEN /\ response' = [response EXCEPT ![r] = SearchInvalidResponse]
               /\ pc' = [pc EXCEPT ![r] = "done"]
               /\ trace' = [trace EXCEPT ![r] = @ \o <<"validate_fail", "respond">>]
          ELSE /\ pc' = [pc EXCEPT ![r] = "build"]
               /\ trace' = [trace EXCEPT ![r] = Append(@, "validate_ok")]
               /\ UNCHANGED response
    /\ UNCHANGED <<endpoint, request, locals, payload>>
    /\ UNCHANGED nonHttpVars

\* a variant of SearchBuild whose dataset is stamped with the time of the
\* invocation, which differs from one invocation to the next
SearchBuildStampedPerInvocation(r) ==
    /\ pc[r] = "build" /\ endpoint[r] = "search"
    /\ payload' = [payload EXCEPT ![r] =
            [SearchResultsBody(locals[r].query) EXCEPT
                !.results = <<[MockDataset(locals[r].query) EXCEPT
                                !.modified = <<"Date.now()", r>>]>>]]
    /\ pc' = [pc EXCEPT ![r] = "respond"]
    /\ trace' = [trace EXCEPT ![r] = Append(@, "build")]
    /\ UNCHANGED <<endpoint, request, locals, response>>
    /\ UNCHANGED nonHttpVars

\* const mockResults = { ... }
SearchBuild(r) ==
    /\ pc[r] = "build" /\ endpoint[r] = "search"
    /\ payload' = [payload EXCEPT ![r] = SearchResultsBody(locals[r].query)]
    /\ pc' = [pc EXCEPT ![r] = "respond"]
    /\ trace' = [trace EXCEPT ![r] = Append(@, "build")]
    /\ UNCHANGED <<endpoint, request, locals, response>>
    /\ UNCHANGED nonHttpVars

\* return { status: 200, jsonBody: mockResults, headers }
SearchRespond(r) ==
    /\ pc[r] = "respond" /\ endpoint[r] = "search"
    /\ response' = [response EXCEPT ![r] = OkResponse(payload[r])]
    /\ pc' = [pc EXCEPT ![r] = "done"]
    /\ trace' = [trace EXCEPT ![r] = Append(@, "respond")]
    /\ UNCHANGED <<endpoint, request, locals, payload>>
    /\ UNCHANGED nonHttpVars

---------------------------------------------------------------------------
(* The two HTTP functions under the Azure Functions host *)

Init ==
    /\ pc = [r \in Requests |-> "idle"]
    /\ endpoint = [r \in Requests |-> "none"]
    /\ request = [r \in Requests |-> NoValue]
    /\ locals = [r \in Requests |-> NoValue]
    /\ payload = [r \in Requests |-> NoValue]
    /\ response = [r \in Requests |-> NoResponse]
    /\ trace = [r \in Requests |-> << >>]
    /\ errCall = NoValue
    /\ errResult = NoValue
    /\ ApiUnused
    /\ UiInitial

Next ==
    \E r \in Requests :
        \/ ChatReceive(r)
        \/ ChatParse(r)
        \/ ChatValidate(r)
        \/ ChatBuild(r)
        \/ ChatRespond(r)
        \/ HandlerCatch(r)
        \/ SearchReceive(r)
        \/ SearchParse(r)
        \/ SearchValidate(r)
        \/ SearchBuild(r)
        \/ SearchRespond(r)

Spec == Init /\ [][Next]_vars

---------------------------------------------------------------------------
(* Error taxonomy and error factory (lib/utils/errorFactory.ts) *)

\* enum ErrorCategory
ErrorCategory ==
    {"VALIDATION", "NOT_FOUND", "RATE_LIMIT",
     "NETWORK", "TIMEOUT", "SERVICE_DOWN", "INTERNAL",
     "OPENAI_ERROR", "ESRI_API_ERROR"}

\* enum ErrorSeverity
ErrorSeverity == {"info", "warning", "error", "critical"}

\* autoRetry: 30 of the RATE_LIMIT template
RateLimitAutoRetry == 30

\* const ERROR_DEFAULTS: the object literal holds seven keys
ERROR_DEFAULTS ==
    [c \in {"VALIDATION", "NETWORK", "OPENAI_ERROR", "ESRI_API_ERROR",
            "TIMEOUT", "RATE_LIMIT", "INTERNAL"} |->
      CASE c = "VALIDATION" ->
             [severity |-> "warning", code |-> "VALIDATION_ERROR",
              title |-> "Invalid Input",
              message |-> "Please check your input and try again.",
              suggestions |-> <<"Review the highlighted fields">>,
              dismissable |-> TRUE, retryable |-> FALSE]
        [] c = "NETWORK" ->
             [severity |-> "error", code |-> "NETWORK_ERROR",
              title |-> "Connection Issue",
              message |-> "Unable to connect to the server.",
              suggestions |-> <<"Check your internet connection",
                                "Try again in a moment",
                                "Use offline features in Data tab">>,
              dismissable |-> TRUE, retryable |-> TRUE]
        [] c = "OPENAI_ERROR" ->
             [severity |-> "error", code |-> "OPENAI_ERROR",
              title |-> "AI Assistant Unavailable",
              message |-> "The chat assistant is temporarily unavailable.",
              suggestions |-> <<"Browse apps manually in the Data tab",
                                "Try your question again in a moment",
                                "Use the search feature to find datasets">>,
              dismissable |-> TRUE, retryable |-> TRUE]
        [] c = "ESRI_API_ERROR" ->
             [severity |-> "warning", code |-> "ESRI_API_ERROR",
              title |-> "Living Atlas Search Unavailable",
              message |-> "Cannot search Living Atlas right now.",
              suggestions |-> <<"Enter a dataset URL directly",
                                "Use previously selected datasets",
                                "Try searching again in a moment">>,
              dismissable |-> TRUE, retryable |-> TRUE]
        [] c = "TIMEOUT" ->
             [severity |-> "warning", code |-> "TIMEOUT",
              title |-> "Request Timed Out",
              message |-> "The operation took too long and was cancelled.",
              suggestions |-> <<"Try again with a simpler query",
                                "Check your connection speed">>,
              dismissable |-> TRUE, retryable |-> TRUE]
        [] c = "RATE_LIMIT" ->
             [severity |-> "info", code |-> "RATE_LIMIT_EXCEEDED",
              title |-> "Too Many Requests",
              message |-> "You're sending requests too quickly.",
              suggestions |-> <<"Wait a moment before trying again">>,
              dismissable |-> TRUE, retryable |-> FALSE,
              autoRetry |-> RateLimitAutoRetry]
        [] c = "INTERNAL" ->
             [severity |-> "critical", code |-> "INTERNAL_ERROR",
              title |-> "Something Went Wrong",
              message |-> "An unexpected error occurred.",
              suggestions |-> <<"Reload the page",
                                "Clear your browser cache",
                                "Contact support if problem persists">>,
              dismissable |-> FALSE, retryable |-> TRUE]]

\* the outcome of a call: a returned value or a thrown exception
Return(v) == [threw |-> FALSE, value |-> v]
Throw(e) == [threw |-> TRUE, exception |-> e]

\* options.f || d, for a string-valued option: absent and '' are falsy
OptText(options, f, d) ==
    IF f \in DOMAIN options /\ options[f] # "" THEN options[f] ELSE d

\* options.f || d, for an array-valued option: every array is truthy
OptArray(options, f, d) ==
    IF f \in DOMAIN options THEN options[f] ELSE d

\* a variant of OptNullish whose fallback is "dismissable" for every category
OptNullishOrTrue(options, f, d) ==
    IF f \in DOMAIN options THEN options[f] ELSE TRUE

\* options.f ?? d
OptNullish(options, f, d) ==
    IF f \in DOMAIN options THEN options[f] ELSE d

\* a variant of createError that lets the caller's options set the severity
createErrorSeverityFromOptions(category, options) ==
    IF category \notin DOMAIN ERROR_DEFAULTS
    THEN Throw("TypeError")
    ELSE LET defaults == ERROR_DEFAULTS[category] IN
         Return([id |-> "err_<Date.now()>_<random>",
                 category |-> category,
                 severity |-> IF "severity" \in DOMAIN options
                                 THEN options.severity ELSE defaults.severity,
                 code |-> defaults.code,
                 title |-> OptText(options, "title", defaults.title),
                 message |-> OptText(options, "message", defaults.message),
                 suggestions |-> OptArray(options, "suggestions", defaults.suggestions),
                 timestamp |-> ISOTimestamp,
                 context |-> IF "context" \in DOMAIN options
                                THEN options.context ELSE Undefined,
                 dismissable |-> IF "dismissable" \in DOMAIN options
                                    THEN options.dismissable ELSE defaults.dismissable,
                 retryable |-> IF "retryable" \in DOMAIN options
                                  THEN options.retryable ELSE defaults.retryable])

\* export function createError(category, options): AppError
\* ERROR_DEFAULTS[category] is undefined for a category without a template,
\* and reading defaults.severity then throws a TypeError
createError(category, options) ==
    IF category \notin DOMAIN ERROR_DEFAULTS
    THEN Throw("TypeError")
    ELSE LET defaults == ERROR_DEFAULTS[category] IN
         Return([id |-> "err_<Date.now()>_<random>",
                 category |-> category,
                 severity |-> defaults.severity,
                 code |-> defaults.code,
                 title |-> OptText(options, "title", defaults.title),
                 message |-> OptText(options, "message", defaults.message),
                 suggestions |-> OptArray(options, "suggestions", defaults.suggestions),
                 timestamp |-> ISOTimestamp,
                 context |-> IF "context" \in DOMAIN options
                                THEN options.context ELSE Undefined,
                 dismissable |-> OptNullish(options, "dismissable", defaults.dismissable),
                 retryable |-> OptNullish(options, "retryable", defaults.retryable)])

---------------------------------------------------------------------------
(* Error mapper (lib/api/client.ts) *)

\* HTTP statuses an upstream response may carry
UpstreamStatuses == {400, 404, 429, 500, 503}

\* what a rejected call hands to the catch block: a plain Error, an
\* AxiosError with or without a response, or a thrown value that is no Error
RawErrors ==
    {[kind |-> "Error", message |-> m] : m \in {"Timeout", "Network", "Fail"}} \cup
    {[kind |-> "AxiosError", message |-> m, hasResponse |-> FALSE] :
        m \in {"Timeout", "Network Error"}} \cup
    {[kind |-> "AxiosError", message |-> m, hasResponse |-> TRUE, status |-> st] :
        m \in {"Timeout", "Request failed"}, st \in UpstreamStatuses} \cup
    {[kind |-> "string"]}

\* error instanceof Error && error.message === 'Timeout'
IsTimeoutError(error) ==
    error.kind \in {"Error", "AxiosError"} /\ error.message = "Timeout"

\* axios.isAxiosError(error)
IsAxiosError(error) == error.kind = "AxiosError"

\* function mapErrorToAppError(error: unknown): AppError
mapErrorToAppError(error) ==
    IF IsTimeoutError(error) THEN createError("TIMEOUT", << >>)
    ELSE IF IsAxiosError(error) /\ ~error.hasResponse
        THEN createError("NETWORK", << >>)
    ELSE IF IsAxiosError(error) /\ error.status = 429
        THEN createError("RATE_LIMIT", << >>)
    ELSE IF IsAxiosError(error) /\ error.status >= 500
        THEN createError("SERVICE_DOWN",
                [context |-> [status |-> error.status, url |-> "error.config.url"]])
    ELSE IF IsAxiosError(error) /\ error.status = 404
        THEN createError("NOT_FOUND", << >>)
    ELSE createError("INTERNAL",
                [context |-> [originalError |-> "String(error)"]])

---------------------------------------------------------------------------
(* Callers of the error layer: any category, any options, any rejection *)

\* an option is passed (a one-element tuple) or left out (the empty tuple)
TitleChoices == {<< >>, <<"">>, <<"Custom title">>}
MessageChoices == {<< >>, <<"">>, <<"Custom message">>}
SuggestionChoices == {<< >>, << << >> >>, << <<"">> >>, << <<"Retry later">> >>}
FlagChoices == {<< >>, <<TRUE>>, <<FALSE>>}
SeverityChoices == {<< >>, <<"info">>}

Field(name, choice) == IF choice = << >> THEN << >> ELSE name :> choice[1]

MkOptions(t, m, s, d, rt, sv) ==
    Field("title", t) @@ Field("message", m) @@ Field("suggestions", s) @@
    Field("dismissable", d) @@ Field("retryable", rt) @@ Field("severity", sv)

\* the calls made to the error layer
ErrCalls ==
    {[fn |-> "createError", category |-> c, options |-> MkOptions(t, m, s, d, rt, sv)] :
        c \in ErrorCategory, t \in TitleChoices, m \in MessageChoices,
        s \in SuggestionChoices, d \in FlagChoices, rt \in FlagChoices,
        sv \in SeverityChoices} \cup
    {[fn |-> "mapErrorToAppError", error |-> e] : e \in RawErrors}

InitErr ==
    /\ pc = [r \in Requests |-> "idle"]
    /\ endpoint = [r \in Requests |-> "none"]
    /\ request = [r \in Requests |-> NoValue]
    /\ locals = [r \in Requests |-> NoValue]
    /\ payload = [r \in Requests |-> NoValue]
    /\ response = [r \in Requests |-> NoResponse]
    /\ trace = [r \in Requests |-> << >>]
    /\ errCall \in ErrCalls
    /\ errResult = NoValue
    /\ ApiUnused
    /\ UiInitial

CallCreateError ==
    /\ errCall.fn = "createError" /\ errResult = NoValue
    /\ errResult' = createError(errCall.category, errCall.options)
    /\ UNCHANGED <<errCall, nonErrVars>>

CallMapError ==
    /\ errCall.fn = "mapErrorToAppError" /\ errResult = NoValue
    /\ errResult' = mapErrorToAppError(errCall.error)
    /\ UNCHANGED <<errCall, nonErrVars>>

NextErr == CallCreateError \/ CallMapError

SpecErr == InitErr /\ [][NextErr]_vars

---------------------------------------------------------------------------
(* Client wrapper (lib/api/client.ts): apiCall *)

\* const { timeout = 10000, retries = 2, fallback } = options  (milliseconds)
DefaultTimeout == 10000
DefaultRetries == 2
\* await delay(Math.pow(2, attempt) * 1000)
BackoffUnit == 1000
\* searchLivingAtlas: { timeout: 5000, retries: 1, fallback: cached?.data }
SearchTimeout == 5000
SearchRetries == 1
\* const CACHE_DURATION = 1000 * 60 * 60
CACHE_DURATION == 3600000

\* what the downstream function resolves with, and what the cache holds
FreshData == [type |-> "object", content |-> "fresh results"]
CachedData == [type |-> "object", content |-> "cached results"]

ApiTimeout(options) ==
    IF "timeout" \in DOMAIN options THEN options.timeout ELSE DefaultTimeout

ApiRetries(options) ==
    IF "retries" \in DOMAIN options THEN options.retries ELSE DefaultRetries

ApiFallback(options) ==
    IF "fallback" \in DOMAIN options THEN options.fallback ELSE Undefined

\* a variant of the last-attempt test under which no attempt is retried
IsLastAttemptAlways(a, n) == TRUE

\* if (attempt === retries)
IsLastAttempt(a, n) == a = n

\* what fn() may reject with
ApiRejections ==
    {[kind |-> "Error", message |-> "Network"],
     [kind |-> "AxiosError", message |-> "Network Error", hasResponse |-> FALSE],
     [kind |-> "AxiosError", message |-> "Request failed", hasResponse |-> TRUE,
      status |-> 429],
     [kind |-> "AxiosError", message |-> "Request failed", hasResponse |-> TRUE,
      status |-> 503]}

\* how Promise.race([fn(), timer]) may settle: fn resolves, fn rejects, or
\* the timer rejects first
Settlements ==
    {[kind |-> "resolved", data |-> FreshData], [kind |-> "timeout"]} \cup
    {[kind |-> "rejected", error |-> e] : e \in ApiRejections}

\* the value bound by catch (error)
CaughtError(settlement) ==
    IF settlement.kind = "timeout"
    THEN [kind |-> "Error", message |-> "Timeout"]
    ELSE settlement.error

\* the options objects callers pass: each field given or left out
RetriesChoices == {<< >>} \cup {<<n>> : n \in 0..MaxRetries}
TimeoutChoices == {<< >>, <<SearchTimeout>>}
FallbackChoices == {<< >>, <<CachedData>>}

DirectCalls ==
    {[caller |-> "direct",
      options |-> Field("timeout", t) @@ Field("retries", n) @@ Field("fallback", f)] :
        t \in TimeoutChoices, n \in RetriesChoices, f \in FallbackChoices}

\* getFromCache(cacheKey): an entry, or undefined
CacheEntries == {Undefined, [data |-> CachedData, ttl |-> CACHE_DURATION]}

\* cached?.data
CachedDataOf(cached) == IF cached = Undefined THEN Undefined ELSE cached.data

SearchCall(cached) ==
    [caller |-> "searchLivingAtlas",
     options |-> [timeout |-> SearchTimeout, retries |-> SearchRetries,
                  fallback |-> CachedDataOf(cached)]]

InitApi ==
    /\ pc = [r \in Requests |-> "idle"]
    /\ endpoint = [r \in Requests |-> "none"]
    /\ request = [r \in Requests |-> NoValue]
    /\ locals = [r \in Requests |-> NoValue]
    /\ payload = [r \in Requests |-> NoValue]
    /\ response = [r \in Requests |-> NoResponse]
    /\ trace = [r \in Requests |-> << >>]
    /\ errCall = NoValue
    /\ errResult = NoValue
    /\ apiPc = "for"
    /\ \/ /\ apiOptions \in DirectCalls
          /\ cache = Undefined
       \/ \E cached \in CacheEntries :
            /\ apiOptions = SearchCall(cached)
            /\ cache = cached
    /\ attempt = 0
    /\ fnCalls = 0
    /\ attemptLog = << >>
    /\ apiResult = NoValue
    /\ storeError = NoValue
    /\ slaResult = NoValue
    /\ UiInitial

\* for (let attempt = 0; attempt <= retries; attempt++) { ... }
\* return { error: createError(ErrorCategory.INTERNAL, {}) }
ApiLoopTest ==
    /\ apiPc = "for"
    /\ IF attempt <= ApiRetries(apiOptions.options)
       THEN /\ apiPc' = "try"
            /\ UNCHANGED apiResult
       ELSE /\ apiPc' = "fell_through"
            /\ apiResult' = Return([error |-> createError("INTERNAL", << >>).value])
    /\ UNCHANGED <<apiOptions, attempt, fnCalls, attemptLog, cache, storeError,
                   slaResult, nonApiVars>>

\* fn() and the timer are started
ApiInvoke ==
    /\ apiPc = "try"
    /\ fnCalls' = fnCalls + 1
    /\ apiPc' = "race"
    /\ UNCHANGED <<apiOptions, attempt, attemptLog, apiResult, cache, storeError,
                   slaResult, nonApiVars>>

\* const result = await Promise.race([...]); return { data: result }
ApiSettle ==
    /\ apiPc = "race"
    /\ \E settlement \in Settlements :
        /\ attemptLog' = Append(attemptLog, settlement)
        /\ IF settlement.kind = "resolved"
           THEN /\ apiResult' = Return([data |-> settlement.data])
                /\ apiPc' = "returned"
           ELSE /\ apiPc' = "catch"
                /\ UNCHANGED apiResult
    /\ UNCHANGED <<apiOptions, attempt, fnCalls, cache, storeError, slaResult,
                   nonApiVars>>

\* catch (error) { if (attempt === retries) { ... } ... }
ApiCatch ==
    /\ apiPc = "catch"
    /\ LET error == CaughtError(attemptLog[Len(attemptLog)])
           fallback == ApiFallback(apiOptions.options) IN
       IF IsLastAttempt(attempt, ApiRetries(apiOptions.options))
       THEN LET appError == mapErrorToAppError(error) IN
            IF appError.threw
            THEN /\ apiResult' = appError
                 /\ apiPc' = "threw"
            ELSE /\ apiResult' =
                        IF fallback # Undefined
                        THEN Return([data |-> fallback])
                        ELSE Return([error |-> appError.value])
                 /\ apiPc' = "returned"
       ELSE /\ apiPc' = "delay"
            /\ UNCHANGED apiResult
    /\ UNCHANGED <<apiOptions, attempt, fnCalls, attemptLog, cache, storeError,
                   slaResult, nonApiVars>>

\* await delay(Math.pow(2, attempt) * 1000); attempt++
ApiBackoff ==
    /\ apiPc = "delay"
    /\ attempt' = attempt + 1
    /\ apiPc' = "for"
    /\ UNCHANGED <<apiOptions, fnCalls, attemptLog, apiResult, cache, storeError,
                   slaResult, nonApiVars>>

ApiSettled == apiPc \in {"returned", "threw", "fell_through"}

---------------------------------------------------------------------------
(* api/atlas.ts: searchLivingAtlas, after its apiCall has settled *)

\* createError(ErrorCategory.ESRI_API_ERROR, { severity: INFO, message, suggestions })
CachedResultsNotice ==
    createError("ESRI_API_ERROR",
        [severity |-> "info",
         message |-> "Showing cached results (may be outdated).",
         suggestions |-> <<"Results may not include latest datasets">>])

\* const { data, error } = await apiCall(...)
ResultData(result) == IF "data" \in DOMAIN result THEN result.data ELSE Undefined
ResultError(result) == IF "error" \in DOMAIN result THEN result.error ELSE Undefined

SearchLivingAtlasFinish ==
    /\ apiOptions.caller = "searchLivingAtlas"
    /\ ApiSettled
    /\ slaResult = NoValue
    /\ IF apiResult.threw
       THEN /\ slaResult' = apiResult
            /\ UNCHANGED <<cache, storeError>>
       ELSE LET data == ResultData(apiResult.value)
                error == ResultError(apiResult.value) IN
            IF error # Undefined /\ ~Truthy(data)
            THEN /\ slaResult' = Throw(error)
                 /\ UNCHANGED <<cache, storeError>>
            ELSE IF Truthy(data)
            THEN /\ cache' = [data |-> data, ttl |-> CACHE_DURATION]
                 /\ storeError' = IF error # Undefined
                                     THEN CachedResultsNotice.value
                                     ELSE storeError
                 /\ slaResult' = Return(data)
            ELSE /\ slaResult' = Throw(error)
                 /\ UNCHANGED <<cache, storeError>>
    /\ UNCHANGED <<apiPc, apiOptions, attempt, fnCalls, attemptLog, apiResult,
                   nonApiVars>>

NextApi ==
    \/ ApiLoopTest
    \/ ApiInvoke
    \/ ApiSettle
    \/ ApiCatch
    \/ ApiBackoff
    \/ SearchLivingAtlasFinish

SpecApi == InitApi /\ [][NextApi]_vars

---------------------------------------------------------------------------
(* Dataset search: LivingAtlasSearch.handleSearch, and the search endpoint
   asked for the same text *)

SearchAlphabet == {"c", "C", "e", "z", " "}

\* what the user may have typed into the search box
SearchTexts ==
    UNION {[1..n -> SearchAlphabet] : n \in 0..MaxSearchLen} \cup
    {<<"c", "e", "n", "s", "u", "s">>,
     <<"C", "e", "n", "s", "u", "s">>}

\* the predicate handed to mockDatasets.filter
DatasetMatches(dataset, query) ==
    \/ Includes(ToLowerCase(dataset.title), ToLowerCase(query))
    \/ Includes(ToLowerCase(dataset.description), ToLowerCase(query))
    \/ \E t \in 1..Len(dataset.tags) :
          Includes(ToLowerCase(dataset.tags[t]), ToLowerCase(query))

\* mockDatasets.filter(dataset => ...)
FilterDatasets(query) ==
    SelectSeq(AllDatasetIds, LAMBDA id : DatasetMatches(DatasetById(id), query))

\* const mockResults = { query, total: 2, results: [ ... ] }, with the text
\* of the query kept
mockResults(query) ==
    [query |-> query,
     total |-> MockTotal,
     results |->
        << [id |-> "dataset-1",
            title |-> query \o <<" ", "D", "a", "t", "a", "s", "e", "t", " ", "E", "x", "a", "m", "p", "l", "e">>,
            description |-> "This is a mock dataset result. ...",
            tags |-> <<query, <<"e", "x", "a", "m", "p", "l", "e">>>>] >>]

\* livingAtlasSearchHandler for ?q=text
SearchEndpoint(text) ==
    IF Len(text) = 0 \/ Len(text) < MinQueryLen
    THEN SearchInvalidResponse
    ELSE OkResponse(mockResults(text))

InitSearch ==
    /\ pc = [r \in Requests |-> "idle"]
    /\ endpoint = [r \in Requests |-> "none"]
    /\ request = [r \in Requests |-> NoValue]
    /\ locals = [r \in Requests |-> NoValue]
    /\ payload = [r \in Requests |-> NoValue]
    /\ response = [r \in Requests |-> NoResponse]
    /\ trace = [r \in Requests |-> << >>]
    /\ errCall = NoValue
    /\ errResult = NoValue
    /\ ApiUnused
    /\ searchQuery \in SearchTexts
    /\ results = AllDatasetIds
    /\ searchPc = "typing"
    /\ backendReply = NoValue
    /\ store = initialState
    /\ datasetsIsInitial = TRUE
    /\ chatInput = << >>
    /\ messages = <<Greeting>>
    /\ renderedMessages = <<Greeting>>
    /\ timers = << >>
    /\ views = <<NewView(<< >>)>>

\* const handleSearch = (e) => { ... }
HandleSearch ==
    /\ searchPc = "typing"
    /\ results' = IF IsBlank(searchQuery)
                   THEN AllDatasetIds
                   ELSE FilterDatasets(searchQuery)
    /\ searchPc' = "submitted"
    /\ UNCHANGED <<searchQuery, backendReply, store, datasetsIsInitial, chatInput,
                   messages, renderedMessages, timers, views, nonUiVars>>

\* GET /living-atlas/search?q=<searchQuery>
AskSearchEndpoint ==
    /\ backendReply = NoValue
    /\ backendReply' = SearchEndpoint(searchQuery)
    /\ UNCHANGED <<searchQuery, results, searchPc, store, datasetsIsInitial,
                   chatInput, messages, renderedMessages, timers, views, nonUiVars>>

NextSearch == HandleSearch \/ AskSearchEndpoint

SpecSearch == InitSearch /\ [][NextSearch]_vars

---------------------------------------------------------------------------
(* useAppStore: the actions, as functions from state to state *)

\* a variant of setSidebarOpen that also brings the Chat tab to the front
setSidebarOpenSelectingChat(state, open) ==
    [state EXCEPT !.sidebarOpen = open, !.activeTab = "chat"]

\* setSidebarOpen: (open) => set({ sidebarOpen: open })
setSidebarOpen(state, open) == [state EXCEPT !.sidebarOpen = open]

\* setActiveTab: (tab) => set({ activeTab: tab })
setActiveTab(state, tab) == [state EXCEPT !.activeTab = tab]

\* setSelectedApp: (app) => set({ selectedApp: app })
setSelectedApp(state, app) == [state EXCEPT !.selectedApp = app]

IsSelected(state, id) ==
    \E i \in 1..Len(state.selectedDatasets) : state.selectedDatasets[i] = id

\* a variant of addDataset that appends without looking
addDatasetUnconditionally(state, id) ==
    [state EXCEPT !.selectedDatasets = Append(@, id)]

\* addDataset: keeps the array when the id is already in it
addDataset(state, id) ==
    IF IsSelected(state, id)
    THEN state
    ELSE [state EXCEPT !.selectedDatasets = Append(@, id)]

\* removeDataset: selectedDatasets.filter((d) => d.id !== datasetId)
removeDataset(state, id) ==
    [state EXCEPT !.selectedDatasets = SelectSeq(@, LAMBDA d : d # id)]

\* clearDatasets: () => set({ selectedDatasets: [] })
clearDatasets(state) == [state EXCEPT !.selectedDatasets = << >>]

\* reset: () => set({ ...initialState, sessionId: generateSessionId() })
\* (session ids are numbered in the order generateSessionId made them)
reset(state) == [initialState EXCEPT !.sessionId = state.sessionId + 1]

---------------------------------------------------------------------------
(* The rendered application: Layout, Header, Sidebar, ChatInterface,
   LivingAtlasSearch, AppPreview, MapContainer, InteractiveMap *)

\* Sidebar.tsx: const tabs = [...]
Tabs == {"chat", "atlas", "preview"}

\* what the user may type into the chat input
ChatTexts ==
    {<<" ", " ">>,
     <<"T", "e", "l", "l", " ", "a", " ", "s", "t", "o", "r", "y">>,
     <<"h", "i">>}

\* mockChatResponses.find(r => message.toLowerCase().includes(r.query))
\*     || mockChatResponses[0]
FindResponse(text) ==
    LET hits == {i \in 1..Len(mockChatResponses) :
                    Includes(ToLowerCase(text), mockChatResponses[i].query)} IN
    IF hits = {} THEN 1
    ELSE CHOOSE i \in hits : \A j \in hits : i <= j

\* mockApps.find(a => a.id === id)
FindApp(id) ==
    LET hits == {i \in 1..Len(mockApps) : mockApps[i].id = id} IN
    IF hits = {} THEN Undefined
    ELSE mockApps[CHOOSE i \in hits : \A j \in hits : i <= j]

\* {activeTab === 'chat' && <ChatInterface />}
ChatMounted == store.activeTab = "chat"

\* the store after the timer callback's setSelectedApp and addDataset calls
RECURSIVE AddAll(_, _)
AddAll(state, ids) ==
    IF ids = << >> THEN state
    ELSE AddAll(addDataset(state, Head(ids)), Tail(ids))

AfterReply(state, r) ==
    LET resp == mockChatResponses[r]
        app == IF Len(resp.recommendedApps) > 0
               THEN FindApp(resp.recommendedApps[1]) ELSE Undefined
        s1 == IF app # Undefined THEN setSelectedApp(state, app) ELSE state IN
    AddAll(s1, SelectSeq(resp.suggestedDatasets, LAMBDA id : id \in DatasetIds))

\* What React does after the store changed from `store` to newStore.
\* Sidebar mounts a fresh ChatInterface when the Chat tab is entered and
\* unmounts it when the tab is left; the timers of an unmounted instance
\* keep running, and their setMessages no longer has an effect.
\* Layout re-renders when sidebarOpen changed and MapContainer when the
\* selectedDatasets array is another one; either way InteractiveMap gets a
\* new datasetIds array and its effect runs again, creating a view. The
\* effect returns nothing, so no earlier view is destroyed.
Rerender(newStore, arrayChanged, arrayIsInitial) ==
    /\ store' = newStore
    /\ datasetsIsInitial' = arrayIsInitial
    /\ IF arrayChanged \/ newStore.sidebarOpen # store.sidebarOpen
       THEN /\ Len(views) < MaxViews
            /\ views' = Append(views, NewView(newStore.selectedDatasets))
       ELSE UNCHANGED views
    /\ IF store.activeTab = "chat" /\ newStore.activeTab # "chat"
       THEN /\ timers' = [i \in 1..Len(timers) |-> [timers[i] EXCEPT !.live = FALSE]]
            /\ UNCHANGED <<chatInput, messages, renderedMessages>>
       ELSE IF store.activeTab # "chat" /\ newStore.activeTab = "chat"
       THEN /\ chatInput' = << >>
            /\ messages' = <<Greeting>>
            /\ renderedMessages' = <<Greeting>>
            /\ UNCHANGED timers
       ELSE UNCHANGED <<chatInput, messages, renderedMessages, timers>>
    /\ UNCHANGED <<searchQuery, results, searchPc, backendReply, nonUiVars>>

\* onChange={(e) => setMessage(e.target.value)}
TypeMessage(text) ==
    /\ ChatMounted
    /\ chatInput' = text
    /\ UNCHANGED <<searchQuery, results, searchPc, backendReply, store,
                   datasetsIsInitial, messages, renderedMessages, timers, views,
                   nonUiVars>>

\* const handleSend = (e) => { ... }: `messages` is the list as of the last
\* render; React renders again before the next event is handled
HandleSend ==
    /\ ChatMounted
    /\ IF IsBlank(chatInput)
       THEN UNCHANGED <<chatInput, messages, renderedMessages, timers>>
       ELSE /\ Len(timers) < MaxSends
            /\ Len(renderedMessages) < 1 + 2 * MaxSends
            /\ messages' = Append(renderedMessages,
                                  [role |-> "user", content |-> chatInput])
            /\ renderedMessages' = messages'
            /\ timers' = Append(timers,
                                [response |-> FindResponse(chatInput), live |-> TRUE])
            /\ chatInput' = << >>
    /\ UNCHANGED <<searchQuery, results, searchPc, backendReply, store,
                   datasetsIsInitial, views, nonUiVars>>

\* the callback handed to setTimeout(..., 500); timers of equal delay fire
\* in the order they were started. setMessages(prev => [...prev, reply]) is
\* applied to the current list; the render that shows it comes later.
TimerFires ==
    /\ timers # << >>
    /\ LET t == Head(timers)
           newStore == AfterReply(store, t.response)
           arrayChanged == newStore.selectedDatasets # store.selectedDatasets IN
       /\ store' = newStore
       /\ datasetsIsInitial' = (datasetsIsInitial /\ ~arrayChanged)
       /\ IF arrayChanged
          THEN /\ Len(views) < MaxViews
               /\ views' = Append(views, NewView(newStore.selectedDatasets))
          ELSE UNCHANGED views
       /\ messages' =
            IF t.live
            THEN Append(messages, [role |-> "assistant",
                                   content |-> mockChatResponses[t.response].response])
            ELSE messages
    /\ timers' = Tail(timers)
    /\ UNCHANGED <<searchQuery, results, searchPc, backendReply, chatInput,
                   renderedMessages, nonUiVars>>

\* React renders ChatInterface with the list the timer callback produced
ChatRender ==
    /\ ChatMounted
    /\ renderedMessages # messages
    /\ renderedMessages' = messages
    /\ UNCHANGED <<searchQuery, results, searchPc, backendReply, store,
                   datasetsIsInitial, chatInput, messages, timers, views, nonUiVars>>

\* Sidebar: onClick={() => setActiveTab(tab.id)}
SelectTab(tab) ==
    /\ tab \in Tabs
    /\ Rerender(setActiveTab(store, tab), FALSE, datasetsIsInitial)

\* AppPreview.tsx: the empty state when !selectedApp, otherwise
\* <span>{selectedApp}</span>, which React refuses for an object
AppPreview(selectedApp) ==
    IF selectedApp = Null
    THEN [empty |-> TRUE, app |-> Null, error |-> FALSE]
    ELSE [empty |-> FALSE, app |-> Null, error |-> TRUE]

\* components/index.ts: const selectedApp = useAppStore(...) || mockApps[0]
AppPreviewWithFallback(selectedApp) ==
    LET app == IF selectedApp = Null THEN mockApps[1] ELSE selectedApp IN
    [empty |-> FALSE, app |-> app.id, error |-> FALSE]

\* {activeTab === 'preview' && <AppPreview />}: the repository defines
\* AppPreview twice, and either definition may be the one that is rendered
PreviewOutcomes ==
    {AppPreview(store.selectedApp), AppPreviewWithFallback(store.selectedApp)}

\* AppPreview.tsx: onClick={() => useAppStore.getState().setActiveTab('chat')}
StartChat ==
    /\ store.activeTab = "preview"
    /\ AppPreview(store.selectedApp).empty
    /\ Rerender(setActiveTab(store, "chat"), FALSE, datasetsIsInitial)

\* Header: onClick={() => setSidebarOpen(!sidebarOpen)}
ToggleSidebar ==
    /\ Len(views) < MaxViews
    /\ Rerender(setSidebarOpen(store, ~store.sidebarOpen), FALSE, datasetsIsInitial)

\* LivingAtlasSearch: onClick={() => addDataset(dataset)}
ClickDataset(id) ==
    /\ store.activeTab = "atlas"
    /\ \E i \in 1..Len(results) : results[i] = id
    /\ Rerender(addDataset(store, id), ~IsSelected(store, id),
                datasetsIsInitial /\ IsSelected(store, id))

\* useAppStore.getState().removeDataset(id): filter makes a new array
RemoveDataset(id) ==
    /\ IsSelected(store, id)
    /\ Rerender(removeDataset(store, id), TRUE, FALSE)

\* useAppStore.getState().clearDatasets()
ClearDatasets ==
    /\ store.selectedDatasets # << >>
    /\ Rerender(clearDatasets(store), TRUE, FALSE)

\* useAppStore.getState().reset(): selectedDatasets is initialState's array
Reset ==
    /\ store.sessionId < MaxResets
    /\ Rerender(reset(store), ~datasetsIsInitial, TRUE)

\* a session in the chat: typing, sending, replies, tabs, the sidebar
NextUi ==
    \/ \E text \in ChatTexts : TypeMessage(text)
    \/ HandleSend
    \/ TimerFires
    \/ ChatRender
    \/ StartChat
    \/ \E tab \in Tabs : SelectTab(tab)
    \/ ToggleSidebar

SpecUi == Init /\ [][NextUi]_vars

\* the messages of a chat in which the texts were sent one after the other
RECURSIVE SentMessages(_)
SentMessages(texts) ==
    IF texts = << >> THEN << >>
    ELSE <<[role |-> "user", content |-> Head(texts)]>> \o SentMessages(Tail(texts))

\* The user has sent up to MaxSends messages and opened the Living Atlas
\* tab before any reply came: the replies are pending, their ChatInterface
\* is unmounted.
InitStore ==
    /\ pc = [r \in Requests |-> "idle"]
    /\ endpoint = [r \in Requests |-> "none"]
    /\ request = [r \in Requests |-> NoValue]
    /\ locals = [r \in Requests |-> NoValue]
    /\ payload = [r \in Requests |-> NoValue]
    /\ response = [r \in Requests |-> NoResponse]
    /\ trace = [r \in Requests |-> << >>]
    /\ errCall = NoValue
    /\ errResult = NoValue
    /\ ApiUnused
    /\ searchQuery = << >>
    /\ results = AllDatasetIds
    /\ searchPc = "typing"
    /\ backendReply = NoValue
    /\ store = setActiveTab(initialState, "atlas")
    /\ datasetsIsInitial = TRUE
    /\ chatInput = << >>
    /\ \E n \in 0..MaxSends :
         \E texts \in [1..n -> {t \in ChatTexts : ~IsBlank(t)}] :
            /\ messages = <<Greeting>> \o SentMessages(texts)
            /\ timers = [i \in 1..n |->
                            [response |-> FindResponse(texts[i]), live |-> FALSE]]
    /\ renderedMessages = messages
    /\ views = <<NewView(<< >>)>>

\* selecting datasets: clicks in the dataset list, the pending replies, and
\* the store's removeDataset, clearDatasets and reset
NextStore ==
    \/ \E id \in DatasetIds : ClickDataset(id)
    \/ TimerFires
    \/ \E id \in DatasetIds : RemoveDataset(id)
    \/ ClearDatasets
    \/ Reset
    \/ \E tab \in Tabs : SelectTab(tab)

SpecStore == InitStore /\ [][NextStore]_vars

---------------------------------------------------------------------------
(* Reading a response *)

Done(r) == pc[r] = "done"

\* invocation r has executed the named step
Did(r, step) == \E i \in 1..Len(trace[r]) : trace[r][i] = step

\* position of the first occurrence of a step in r's trace (0: none)
FirstAt(r, step) ==
    IF Did(r, step)
    THEN CHOOSE i \in 1..Len(trace[r]) :
            /\ trace[r][i] = step
            /\ \A j \in 1..(i - 1) : trace[r][j] # step
    ELSE 0

\* a response body with an `error` member is a failure envelope
IsFailure(resp) == "error" \in DOMAIN resp.jsonBody

IsSuccess(resp) == resp.status = 200 /\ ~IsFailure(resp)

\* the category whose template carries this error code ("NONE": no category)
CategoryOfCode(code) ==
    IF \E c \in DOMAIN ERROR_DEFAULTS : ERROR_DEFAULTS[c].code = code
    THEN CHOOSE c \in DOMAIN ERROR_DEFAULTS : ERROR_DEFAULTS[c].code = code
    ELSE "NONE"

FailureCategory(resp) == CategoryOfCode(resp.jsonBody.error.code)

IsChat(r) == endpoint[r] = "chat"
IsSearch(r) == endpoint[r] = "search"

\* the chat request carries a JSON object whose message is a string
HasStringMessage(r) ==
    /\ IsChat(r)
    /\ request[r].body.kind = "json"
    /\ request[r].body.value.type = "object"
    /\ request[r].body.value.message.type = "string"

MessageLen(r) == request[r].body.value.message.len

\* a valid chat request: a message of 1 to 500 characters
ValidChat(r) ==
    /\ HasStringMessage(r)
    /\ MessageLen(r) \in MinMessageLen..MaxMessageLen

\* a search request whose q is absent or shorter than 3 characters
ShortQuery(r) ==
    /\ IsSearch(r)
    /\ \/ request[r].q.type = "null"
       \/ request[r].q.len < MinQueryLen

---------------------------------------------------------------------------
(* Claims about the two handlers, checked under Spec *)

\* C1: every search request whose q is absent or shorter than 3 characters
\* is answered with HTTP 400 and a failure of category VALIDATION, and the
\* result payload is never constructed for it.
C1_ShortQueryIsValidationFailure ==
    \A r \in Requests :
        ShortQuery(r) =>
            /\ ~Did(r, "build")
            /\ Done(r) =>
                  /\ response[r].status = 400
                  /\ IsFailure(response[r])
                  /\ FailureCategory(response[r]) = "VALIDATION"

\* C2: a chat request whose message is the empty string is answered with
\* HTTP 400, error code VALIDATION_ERROR and details {field: "message",
\* length: 0}, and no assistant reply is built.
C2_EmptyMessageIsValidationError ==
    \A r \in Requests :
        (HasStringMessage(r) /\ MessageLen(r) = 0) =>
            /\ ~Did(r, "build")
            /\ Done(r) =>
                  /\ response[r].status = 400
                  /\ IsFailure(response[r])
                  /\ response[r].jsonBody.error.code = "VALIDATION_ERROR"
                  /\ "details" \in DOMAIN response[r].jsonBody.error
                  /\ response[r].jsonBody.error.details =
                        [field |-> "message", length |-> 0]

\* C3: a chat request whose message is longer than 500 characters is
\* rejected with a 400 failure and never answered 200; a string message
\* reaches the reply step only when it has 1 to 500 characters.
C3_OverlongMessageRejected ==
    \A r \in Requests :
        HasStringMessage(r) =>
            /\ Did(r, "build") => MessageLen(r) \in MinMessageLen..MaxMessageLen
            /\ (MessageLen(r) > MaxMessageLen /\ Done(r)) =>
                  /\ response[r].status = 400
                  /\ IsFailure(response[r])

\* the chat request is malformed: its body is not JSON, is JSON null, or
\* is an object whose message is present and not a string
MalformedChat(r) ==
    /\ IsChat(r)
    /\ \/ request[r].body.kind = "unparseable"
       \/ request[r].body.value.type = "null"
       \/ /\ request[r].body.value.type = "object"
          /\ request[r].body.value.message.type \notin {"string", "undefined"}

\* C4: a malformed chat request is answered with a validation failure
\* (HTTP 400), never with an INTERNAL failure and never with a reply.
C4_MalformedBodyIsValidationFailure ==
    \A r \in Requests :
        (MalformedChat(r) /\ Done(r)) =>
            /\ IsFailure(response[r])
            /\ response[r].status = 400
            /\ response[r].jsonBody.error.code # "INTERNAL_ERROR"

\* a Success: non-empty content, every score in [0,1], scores descending
SuccessShape(resp) ==
    /\ IsSuccess(resp)
    /\ resp.jsonBody.content.type = "string"
    /\ resp.jsonBody.content.len > 0
    /\ LET recs == resp.jsonBody.recommendations IN
       /\ \A i \in 1..Len(recs) :
             recs[i].relevanceScore >= 0 /\ recs[i].relevanceScore <= ScoreOne
       /\ \A i \in 1..Len(recs) : \A j \in (i + 1)..Len(recs) :
             recs[i].relevanceScore >= recs[j].relevanceScore

\* a Failure whose category belongs to the closed taxonomy
FailureShape(resp) ==
    /\ IsFailure(resp)
    /\ FailureCategory(resp) \in ErrorCategory

\* C5: the response to a valid chat request (message of 1 to 500
\* characters) is a Success with non-empty content and recommendations
\* whose scores lie in [0,1] in descending order, or a Failure whose
\* category is one of the taxonomy; nothing else.
C5_ValidChatResponseShape ==
    \A r \in Requests :
        (ValidChat(r) /\ Done(r)) =>
            \/ SuccessShape(response[r])
            \/ FailureShape(response[r])

C5_Witness ==
    \E r \in Requests :
        /\ ValidChat(r) /\ Done(r)
        /\ MessageLen(r) = MaxMessageLen
        /\ response[r].status = 200
        /\ Len(response[r].jsonBody.recommendations) >= 1

\* the failure carries a request id, in the envelope or in the error
HasRequestId(resp) ==
    \/ "requestId" \in DOMAIN resp.jsonBody
    \/ "requestId" \in DOMAIN resp.jsonBody.error

\* C6: every Failure envelope of either endpoint carries a suggestions
\* list with at least one entry and a request id.
C6_FailureHasSuggestionsAndRequestId ==
    \A r \in Requests :
        (Done(r) /\ IsFailure(response[r])) =>
            /\ "suggestions" \in DOMAIN response[r].jsonBody.error
            /\ Len(response[r].jsonBody.error.suggestions) >= 1
            /\ HasRequestId(response[r])

\* C7: within one request the steps run in the order validation, handler,
\* envelope: the payload is built only after validation has succeeded, a
\* request that passed validation is answered only after its payload is
\* built, and a request that failed validation never has a payload built.
C7_ValidateThenBuildThenRespond ==
    \A r \in Requests :
        /\ Did(r, "build") =>
              /\ Did(r, "validate_ok")
              /\ FirstAt(r, "validate_ok") < FirstAt(r, "build")
        /\ (Did(r, "respond") /\ Did(r, "validate_ok")) =>
              /\ Did(r, "build")
              /\ FirstAt(r, "build") < FirstAt(r, "respond")
        /\ Did(r, "validate_fail") => ~Did(r, "build")
        /\ (Did(r, "build") /\ Done(r)) => response[r].jsonBody = payload[r]

C7_Witness ==
    \E r1, r2 \in Requests :
        /\ Done(r1) /\ trace[r1] = <<"receive", "parse", "validate_ok", "build", "respond">>
        /\ Done(r2) /\ Did(r2, "validate_fail")

\* C8: every response envelope of either endpoint, Success and Failure
\* alike, carries a timestamp as a field of the envelope itself.
C8_EnvelopeHasTimestamp ==
    \A r \in Requests :
        Done(r) =>
            /\ "timestamp" \in DOMAIN response[r].jsonBody
            /\ response[r].jsonBody.timestamp = ISOTimestamp

---------------------------------------------------------------------------
(* Claims about the error layer, checked under SpecErr *)

Returned == "threw" \in DOMAIN errResult

\* the category the decision order assigns to a rejection: deadline,
\* no response, status >= 500, 429, 404, anything else
DecidedCategory(error) ==
    IF IsTimeoutError(error) THEN "TIMEOUT"
    ELSE IF IsAxiosError(error) /\ ~error.hasResponse THEN "NETWORK"
    ELSE IF IsAxiosError(error) /\ error.status >= 500 THEN "SERVICE_DOWN"
    ELSE IF IsAxiosError(error) /\ error.status = 429 THEN "RATE_LIMIT"
    ELSE IF IsAxiosError(error) /\ error.status = 404 THEN "NOT_FOUND"
    ELSE "INTERNAL"

\* C9: mapErrorToAppError returns, for every failure, an AppError of the
\* one category the decision order assigns: TIMEOUT, NETWORK, SERVICE_DOWN
\* (status >= 500), RATE_LIMIT (429), NOT_FOUND (404), else INTERNAL.
C9_MapErrorFollowsDecisionOrder ==
    (errCall.fn = "mapErrorToAppError" /\ Returned) =>
        /\ ~errResult.threw
        /\ errResult.value.category = DecidedCategory(errCall.error)

AppErrorFields ==
    {"severity", "code", "title", "message", "suggestions",
     "dismissable", "retryable"}

\* C10: createError returns a complete AppError for every category of the
\* taxonomy and every options value, without failing.
C10_CreateErrorTotal ==
    (errCall.fn = "createError" /\ Returned) =>
        /\ ~errResult.threw
        /\ AppErrorFields \subseteq DOMAIN errResult.value

---------------------------------------------------------------------------
(* Properties of the AppError objects the error layer hands out *)

\* the call returned an AppError (it did not throw)
ReturnedAppError == Returned /\ ~errResult.threw

CreatedAppError == errCall.fn = "createError" /\ ReturnedAppError

HasNonEmptyEntry(suggestions) ==
    \E i \in 1..Len(suggestions) : suggestions[i] # ""

\* C11: every AppError returned by createError or mapErrorToAppError, for
\* any category and any options (a caller-supplied suggestions list
\* included), carries at least one non-empty suggestions entry.
C11_AppErrorHasNonEmptySuggestion ==
    ReturnedAppError => HasNonEmptyEntry(errResult.value.suggestions)

\* C12: for every category and every options value, the severity of the
\* AppError createError returns is the category's default severity; a
\* caller's title, message and suggestions are taken over, a caller's
\* severity is not.
C12_SeverityIsCategoryDefault ==
    CreatedAppError =>
        LET o == errCall.options
            e == errResult.value IN
        /\ e.severity = ERROR_DEFAULTS[errCall.category].severity
        /\ ("title" \in DOMAIN o /\ o.title # "") => e.title = o.title
        /\ ("message" \in DOMAIN o /\ o.message # "") => e.message = o.message
        /\ "suggestions" \in DOMAIN o => e.suggestions = o.suggestions

\* createError has returned for a caller who asked for severity "info" on a
\* category whose default severity is another one, and who overrode the title
C12_Witness ==
    /\ CreatedAppError
    /\ "severity" \in DOMAIN errCall.options
    /\ errCall.options.severity # ERROR_DEFAULTS[errCall.category].severity
    /\ "title" \in DOMAIN errCall.options
    /\ errResult.value.title = "Custom title"

\* non-dismissable exactly when critical, critical exactly when INTERNAL
DismissableUnlessCritical(e) ==
    /\ (~e.dismissable) <=> (e.severity = "critical")
    /\ (e.severity = "critical") <=> (e.category = "INTERNAL")

\* C13 as stated: an AppError is non-dismissable if and only if its severity
\* is critical (category INTERNAL), whatever options the caller passes.
C13_DismissableUnlessCriticalWhateverOptions ==
    ReturnedAppError => DismissableUnlessCritical(errResult.value)

\* C13, amended: an AppError produced without a caller-supplied dismissable
\* option is non-dismissable if and only if its severity is critical
\* (category INTERNAL); a dismissable option given by the caller replaces
\* the category's default.
C13_DismissableUnlessCriticalByDefault ==
    /\ (ReturnedAppError /\ errCall.fn = "mapErrorToAppError") =>
            DismissableUnlessCritical(errResult.value)
    /\ CreatedAppError =>
            IF "dismissable" \in DOMAIN errCall.options
            THEN errResult.value.dismissable = errCall.options.dismissable
            ELSE DismissableUnlessCritical(errResult.value)

\* createError has returned an INTERNAL error for a caller who passed other
\* options but no dismissable option
C13_Witness ==
    /\ CreatedAppError
    /\ errCall.category = "INTERNAL"
    /\ "dismissable" \notin DOMAIN errCall.options
    /\ "retryable" \in DOMAIN errCall.options
    /\ ~errResult.value.dismissable

\* C14: every AppError produced for an upstream HTTP 429 has category
\* RATE_LIMIT and severity info and carries the 30 second auto-retry hint.
C14_RateLimitCarriesAutoRetry ==
    (/\ errCall.fn = "mapErrorToAppError"
     /\ IsAxiosError(errCall.error)
     /\ ~IsTimeoutError(errCall.error)
     /\ errCall.error.hasResponse
     /\ errCall.error.status = 429
     /\ Returned) =>
        /\ ~errResult.threw
        /\ errResult.value.category = "RATE_LIMIT"
        /\ errResult.value.severity = "info"
        /\ "autoRetry" \in DOMAIN errResult.value
        /\ errResult.value.autoRetry = RateLimitAutoRetry

---------------------------------------------------------------------------
(* Properties of apiCall and of searchLivingAtlas *)

Retries == ApiRetries(apiOptions.options)
Timeout == ApiTimeout(apiOptions.options)
Fallback == ApiFallback(apiOptions.options)

Attempts == 1..Len(attemptLog)
TimedOut(i) == attemptLog[i].kind = "timeout"
AnyTimedOut == \E i \in Attempts : TimedOut(i)
AllTimedOut == Attempts # {} /\ \A i \in Attempts : TimedOut(i)

\* apiCall returned { error } and nothing else
ReturnedError == apiPc = "returned" /\ DOMAIN apiResult.value = {"error"}
\* apiCall returned { data } although its last attempt failed
ServedFallback ==
    /\ apiPc = "returned"
    /\ attemptLog[Len(attemptLog)].kind # "resolved"
    /\ "data" \in DOMAIN apiResult.value

RECURSIVE Pow2(_)
Pow2(n) == IF n = 0 THEN 1 ELSE 2 * Pow2(n - 1)

\* milliseconds the timers of the first k attempts ran before rejecting
RECURSIVE TimerWaits(_)
TimerWaits(k) ==
    IF k = 0 THEN 0
    ELSE TimerWaits(k - 1) + (IF TimedOut(k) THEN Timeout ELSE 0)

\* milliseconds spent in the delays that followed attempts 0 .. a-1
RECURSIVE BackoffWaits(_)
BackoffWaits(a) ==
    IF a = 0 THEN 0
    ELSE BackoffWaits(a - 1) + Pow2(a - 1) * BackoffUnit

\* the least time the caller has been kept waiting so far
PendingAtLeast == TimerWaits(Len(attemptLog)) + BackoffWaits(attempt)

\* the HTTP status chatHandler's catch block gives to whatever failure is
\* thrown inside the handler, a timed-out downstream call included
CaughtFailureStatus == InternalErrorResponse("chat").status

\* C15: when a downstream call does not complete within the configured
\* timeout, the caller receives a failure of category TIMEOUT with
\* retryable = true, reported with HTTP status 504, and has not been kept
\* pending beyond the timeout.
C15_TimeoutIsRetryable504WithinTimeout ==
    (ApiSettled /\ AnyTimedOut) =>
        /\ ReturnedError
        /\ apiResult.value.error.category = "TIMEOUT"
        /\ apiResult.value.error.retryable
        /\ CaughtFailureStatus = 504
        /\ PendingAtLeast <= Timeout

\* C16 as stated: a downstream call that timed out is abandoned without a
\* retry, so the downstream function has been invoked exactly once.
C16_TimedOutCallInvokedOnce ==
    (ApiSettled /\ AnyTimedOut) => fnCalls = 1

\* C16, amended: a downstream call that times out is retried; when every
\* attempt times out the downstream function has been invoked exactly
\* retries + 1 times, and only then is the call treated as a TIMEOUT
\* failure (or answered with the fallback, when one was given).
C16_TimedOutCallInvokedRetriesPlusOne ==
    /\ (ApiSettled /\ AllTimedOut) =>
            /\ fnCalls = Retries + 1
            /\ apiPc = "returned"
            /\ IF Fallback = Undefined
               THEN /\ ReturnedError
                    /\ apiResult.value.error.category = "TIMEOUT"
               ELSE apiResult.value = [data |-> Fallback]
    /\ (AllTimedOut /\ Len(attemptLog) <= Retries) => ~ApiSettled

\* a call with retries = 2 has settled after each of its attempts timed out
C16_Witness ==
    /\ ApiSettled
    /\ AllTimedOut
    /\ Retries = 2
    /\ fnCalls = 3

\* C17: whenever a failed downstream call is answered with the fallback
\* payload, the result handed to the caller is marked as a fallback, and
\* searchLivingAtlas raises its "Showing cached results" notice whenever
\* it serves that payload.
C17_FallbackIsMarkedAndNoticed ==
    /\ ServedFallback => DOMAIN apiResult.value # {"data"}
    /\ (/\ apiOptions.caller = "searchLivingAtlas"
        /\ slaResult # NoValue
        /\ ServedFallback) =>
            storeError = CachedResultsNotice.value

\* a rejection that is a network failure: the plain Error('Network') of the
\* unit test, or an axios error that carries no response
IsNetworkFailure(e) ==
    \/ e.kind = "Error" /\ e.message = "Network"
    \/ IsAxiosError(e) /\ ~e.hasResponse

AllNetworkFailures ==
    /\ Attempts # {}
    /\ \A i \in Attempts :
        attemptLog[i].kind = "rejected" /\ IsNetworkFailure(attemptLog[i].error)

\* C18: when the wrapped function rejects on every attempt with a network
\* failure and no fallback is given, apiCall returns a result with no data
\* and an error of category NETWORK.
C18_NetworkFailuresGiveNetworkError ==
    (ApiSettled /\ AllNetworkFailures /\ Fallback = Undefined) =>
        /\ ReturnedError
        /\ apiResult.value.error.category = "NETWORK"

\* C19: apiCall invokes the function at most retries + 1 times, stops at
\* the first attempt that resolves and returns that attempt's data, always
\* ends by returning data or an error from inside the loop, and never
\* reaches the return that follows the loop.
C19_BoundedAttemptsReturnInsideLoop ==
    /\ fnCalls <= Retries + 1
    /\ attempt <= Retries
    /\ Len(attemptLog) <= fnCalls
    /\ \A i \in Attempts :
        attemptLog[i].kind = "resolved" =>
            /\ i = Len(attemptLog)
            /\ fnCalls = i
            /\ apiPc = "returned"
            /\ apiResult.value = [data |-> attemptLog[i].data]
    /\ apiPc # "fell_through"
    /\ apiPc # "threw"
    /\ apiPc = "returned" =>
            \/ DOMAIN apiResult.value = {"data"}
            \/ DOMAIN apiResult.value = {"error"}

---------------------------------------------------------------------------
(* Repeating a search *)

\* invocations a and b are two completed searches for the same parameters
SameSearchTwice(a, b) ==
    /\ a # b
    /\ IsSearch(a) /\ IsSearch(b)
    /\ Done(a) /\ Done(b)
    /\ request[a] = request[b]

\* C20: two identical search requests return identical results arrays in
\* identical order.
C20_SameSearchSameResults ==
    \A a, b \in Requests :
        SameSearchTwice(a, b) =>
            /\ response[a].status = response[b].status
            /\ IsSuccess(response[a]) =>
                    response[a].jsonBody.results = response[b].jsonBody.results

\* two invocations have answered the same valid search with 200
C20_Witness ==
    \E a, b \in Requests :
        /\ SameSearchTwice(a, b)
        /\ IsSuccess(response[a])
        /\ Len(response[b].jsonBody.results) >= 1

---------------------------------------------------------------------------
(* Concurrent invocations *)

\* chatHandler run from its first line to its return with nothing else
\* running
ChatAlone(req) ==
    IF ChatParseThrows(req.body) THEN InternalErrorResponse("chat")
    ELSE IF ChatMessageMissing(MessageOf(req.body.value)) THEN ChatInvalidResponse
    ELSE OkResponse(ChatResponseBody(MessageOf(req.body.value)))

\* livingAtlasSearchHandler run from its first line to its return with
\* nothing else running
SearchAlone(req) ==
    IF SearchQueryInvalid(QueryOf(req.q)) THEN SearchInvalidResponse
    ELSE OkResponse(SearchResultsBody(QueryOf(req.q)))

ProcessedAlone(ep, req) == IF ep = "chat" THEN ChatAlone(req) ELSE SearchAlone(req)

\* C21: under every interleaving of concurrently processed chat and search
\* requests each request is answered as it would be if processed alone, and
\* what an invocation has read or built depends on its own request only.
C21_AnsweredAsIfAlone ==
    \A r \in Requests :
        /\ Done(r) => response[r] = ProcessedAlone(endpoint[r], request[r])
        /\ (IsChat(r) /\ pc[r] \in {"validate", "build", "respond"}) =>
                locals[r] = [message |-> MessageOf(request[r].body.value)]
        /\ (IsChat(r) /\ pc[r] = "respond") =>
                payload[r] = ChatResponseBody(locals[r].message)

\* a chat request has been answered with 200 while another chat request,
\* carrying a different body, is between its parse and its reply
C21_Witness ==
    \E a, b \in Requests :
        /\ a # b
        /\ IsChat(a) /\ Done(a) /\ IsSuccess(response[a])
        /\ IsChat(b) /\ pc[b] \in {"build", "respond"}
        /\ request[a] # request[b]

---------------------------------------------------------------------------
(* Searching the catalog *)

\* the catalog datasets whose title, description or a tag contains the
\* text, whatever the case of the letters
CatalogMatches(text) ==
    {id \in DatasetIds :
        LET d == DatasetById(id)
            q == ToLowerCase(text) IN
        \/ Includes(ToLowerCase(d.title), q)
        \/ Includes(ToLowerCase(d.description), q)
        \/ \E t \in 1..Len(d.tags) : Includes(ToLowerCase(d.tags[t]), q)}

\* the ids listed, each once
ListsExactly(ids, set) ==
    /\ {ids[i] : i \in 1..Len(ids)} = set
    /\ Len(ids) = Cardinality(set)

ReplyIds(reply) ==
    [i \in 1..Len(reply.jsonBody.results) |-> reply.jsonBody.results[i].id]

\* C22: a search for q returns exactly the catalog datasets whose title,
\* description or a tag contains q as a case-insensitive substring, and a
\* search for "census" returns 'USA Census Tract Boundaries' with
\* total >= 1.
C22_SearchReturnsExactlyTheMatches ==
    /\ searchPc = "submitted" =>
            ListsExactly(results, CatalogMatches(searchQuery))
    /\ (backendReply # NoValue /\ backendReply.status = 200) =>
            /\ ListsExactly(ReplyIds(backendReply), CatalogMatches(searchQuery))
            /\ backendReply.jsonBody.total = Len(backendReply.jsonBody.results)
    /\ (backendReply # NoValue /\ "usa-census-tract-boundaries" \in CatalogMatches(searchQuery)) =>
            /\ backendReply.status = 200
            /\ backendReply.jsonBody.total >= 1


---------------------------------------------------------------------------
(* The rendered application: claims *)

IsPrefix(s, t) == Len(s) <= Len(t) /\ SubSeq(t, 1, Len(s)) = s

\* C23: text typed into the chat input and not yet sent is still in the
\* input when the user comes back to the Chat tab from another tab.
C23_ChatInputKeptAcrossTabSwitches ==
    [][(store.activeTab # "chat" /\ store' = setActiveTab(store, "chat"))
         => chatInput' = chatInput]_vars

\* C24: as long as the application is not reset, every message the chat
\* has shown stays in the message list, in the same order.
C24_ShownMessagesStayUntilReset ==
    [][store'.sessionId = store.sessionId
         => IsPrefix(renderedMessages, messages')]_vars

\* C25: the sidebar starts open, and a click on the header's toggle button
\* negates sidebarOpen and leaves every other field of the store as it
\* was (so that two clicks in a row restore the store).
C25_ToggleFlipsOnlySidebarOpen ==
    /\ initialState.sidebarOpen
    /\ [][ToggleSidebar
            => store' = [store EXCEPT !.sidebarOpen = ~store.sidebarOpen]]_vars

\* the sidebar is open again after two clicks: apart from the reset, only
\* the toggle creates a view while the dataset array is the initial one
C25_Witness ==
    /\ store = initialState
    /\ datasetsIsInitial
    /\ Len(views) = 3

\* C26: on the Preview tab the 'No App Selected' state is what is shown
\* exactly when selectedApp is null; otherwise the selected app is shown.
C26_EmptyStateIffNoAppSelected ==
    store.activeTab = "preview" =>
        \A shown \in PreviewOutcomes :
            IF store.selectedApp = Null
            THEN shown.empty
            ELSE ~shown.empty /\ ~shown.error /\ shown.app = store.selectedApp.id

\* the layers on the map: those of every view that was not destroyed
RECURSIVE LayersOf(_)
LayersOf(vs) ==
    IF vs = << >> THEN << >> ELSE Head(vs).layers \o LayersOf(Tail(vs))

LayerCount(layers, title) ==
    Cardinality({i \in 1..Len(layers) : layers[i] = title})

\* C27: the map shows one layer per selected dataset, none for a dataset
\* that is not selected, and 'USA States' exactly when nothing is selected.
C27_MapShowsExactlyTheSelection ==
    LET shown == LayersOf(views) IN
    /\ \A id \in DatasetIds :
          LayerCount(shown, LayersFor(<<id>>)[1]) =
              IF IsSelected(store, id) THEN 1 ELSE 0
    /\ (LayerCount(shown, "USA States") > 0) <=> (store.selectedDatasets = << >>)

\* C28: while ChatInterface stays mounted, no send and no reply removes a
\* message that is in the list.
C28_NoMessageLostWhileMounted ==
    [][(ChatMounted /\ ChatMounted') => IsPrefix(messages, messages')]_vars

NoDuplicates(seq) ==
    \A i, j \in 1..Len(seq) : seq[i] = seq[j] => i = j

C30_AtMostOneMapView == Len(views) <= 1

====
